---- MODULE Spec2Model ----
(***************************************************************************)
(* Live-migration scheduling of nova/scheduler/driver.py (class Scheduler). *)
(*                                                                         *)
(* The state is the repository (instances, volumes, services), the clock   *)
(* read by service_is_up, and for every caller the position inside         *)
(* schedule_live_migration together with its locals.  The reads, remote    *)
(* calls and writes a call issues are kept per call, so that statements    *)
(* about what a call did or did not do are statements about the state.     *)
(***************************************************************************)
EXTENDS Integers, Sequences, FiniteSets, TLC

VARIABLES
    instances,      \* db: instance id -> Instance record
    volumes,        \* db: volume id -> status
    services,       \* db: sequence of Service records, in the order the db returns them
    now,            \* datetime.datetime.utcnow()
    FLAGS,          \* flags.FLAGS: the configured service_down_time
    probe,          \* what the last call of service_is_up, hosts_up or schedule gave
    silent,         \* the hosts whose compute agent never answers an rpc.call
    pc,             \* caller -> position in schedule_live_migration
    args,           \* caller -> [instance_id, dest]
    instance_ref,   \* caller -> the record loaded by db.instance_get
    filename,       \* caller -> the path returned by mktmpfile
    vi,             \* caller -> index of the next volume of the "for v in" loop
    result,         \* caller -> what the call returned or raised
    phases,         \* caller -> the phases the call has started, in order
    passed,         \* caller -> the phases that returned without raising
    reads,          \* caller -> the db reads issued by the call, in order
    rpcs,           \* caller -> the rpc.call messages sent by the call, in order
    replies,        \* caller -> what each rpc.call returned or raised, in order
    writes,         \* caller -> the db writes issued by the call, in order
    pre             \* caller -> instances and volumes as they were when the call began

vars == <<instances, volumes, services, now, FLAGS, probe, silent, pc, args, instance_ref, filename,
          vi, result, phases, passed, reads, rpcs, replies, writes, pre>>

dbvars == <<instances, volumes, services, now>>

----------------------------------------------------------------------------
(* Bounds of the model.                                                    *)

\* Number of attributes in which the initial repository may differ from the
\* deployment of the end-to-end example (everything registered, alive and
\* compatible).
MaxDiff == 2

\* Largest memory_mb an instance asks for; hosts have MaxMem + 1 in total.
MaxMem == 2

\* Largest timestamp of a service record drawn for the liveness operations.
MaxStamp == 2

\* Largest service_down_time drawn for the liveness operations.
MaxThreshold == 2

----------------------------------------------------------------------------
(* Program constants.                                                      *)

service_down_time == 60

RUNNING == "RUNNING"
PAUSED == "PAUSED"

compute_topic == "compute"

----------------------------------------------------------------------------
(* The repository the calls run against.                                   *)

Callers == {"c1", "c2"}

Hosts == {"A", "B"}

\* Destinations a caller may name: the registered hosts and one unknown host.
Dests == Hosts \cup {"C"}

InstanceIds == {"i1", "i2"}

\* Ids a caller may name: the instances and one id with no record.
RequestIds == InstanceIds \cup {"i0"}

VolumeIds == {"v1", "v2", "v3"}

NowInit == 2 * service_down_time

\* A heartbeat exactly service_down_time old, and one a second younger.
OldStamp == NowInit - service_down_time
RecentStamp == OldStamp + 1

MemTotal == MaxMem + 1

BaseCompute ==
    [present |-> TRUE, created_at |-> OldStamp, updated_at |-> <<RecentStamp>>,
     memory_mb_used |-> 0, hypervisor_type |-> "kvm", hypervisor_version |-> 1]

ComputeOpts ==
    {s \in [present : BOOLEAN,
            created_at : {OldStamp, RecentStamp},
            updated_at : {<<>>, <<OldStamp>>, <<RecentStamp>>},
            memory_mb_used : 0 .. MemTotal,
            hypervisor_type : {"kvm", "xen"},
            hypervisor_version : {1, 2}] :
        ~s.present => s = [BaseCompute EXCEPT !.present = FALSE]}

BaseVolumeServices == <<TRUE>>

VolumeServiceOpts ==
    {<<>>, <<TRUE>>, <<FALSE>>, <<TRUE, FALSE>>, <<FALSE, TRUE>>, <<FALSE, FALSE>>}

BaseInstance ==
    [state |-> RUNNING, state_description |-> "running", launched_on |-> "A",
     memory_mb |-> 1, volumes |-> <<"v1", "v2">>]

InstanceOpts ==
    [state : {RUNNING, PAUSED},
     state_description : {"running", "migrating"},
     launched_on : Dests,
     memory_mb : 1 .. MaxMem,
     volumes : {<<>>, <<"v1">>, <<"v1", "v2">>}]

\* Number of fields in which two records of the same shape differ.
Dist(a, b) == Cardinality({f \in DOMAIN a : a[f] # b[f]})

ComputeService(h, s) ==
    [host |-> h, topic |-> compute_topic,
     created_at |-> s.created_at, updated_at |-> s.updated_at,
     compute_service |->
        <<[memory_mb |-> MemTotal, memory_mb_used |-> s.memory_mb_used,
           hypervisor_type |-> s.hypervisor_type,
           hypervisor_version |-> s.hypervisor_version,
           cpu_info |-> IF h = "A" THEN "cpu-A" ELSE "cpu-B"]>>]

VolumeService(k, up) ==
    [host |-> IF k = 1 THEN "V1" ELSE "V2", topic |-> "volume",
     created_at |-> OldStamp,
     updated_at |-> IF up THEN <<RecentStamp>> ELSE <<OldStamp>>,
     compute_service |-> <<>>]

\* The services table: the volume services in the order given, then the
\* compute service of every host that has one.
ServiceTable(vs, sa, sb) ==
    [k \in 1 .. Len(vs) |-> VolumeService(k, vs[k])]
    \o (IF sa.present THEN <<ComputeService("A", sa)>> ELSE <<>>)
    \o (IF sb.present THEN <<ComputeService("B", sb)>> ELSE <<>>)

Instance(id, host, i) ==
    [id |-> id, hostname |-> id, state |-> i.state,
     state_description |-> i.state_description, host |-> host,
     launched_on |-> i.launched_on, memory_mb |-> i.memory_mb,
     volumes |-> i.volumes]

\* The second instance: running on B, with one volume of its own.
OtherInstance ==
    Instance("i2", "B",
             [state |-> RUNNING, state_description |-> "running",
              launched_on |-> "B", memory_mb |-> 1, volumes |-> <<"v3">>])

InSeq(x, s) == \E k \in 1 .. Len(s) : s[k] = x

VolumeTable(i) ==
    [v \in VolumeIds |->
        IF v = "v3" \/ InSeq(v, i.volumes) THEN "in-use" ELSE "available"]

NoResult == [kind |-> "none", value |-> "none"]
NoArgs == [instance_id |-> "i0", dest |-> "C"]
NoRef == Instance("i0", "C", BaseInstance)
NoPre == [instances |-> <<>>, volumes |-> <<>>]
NoProbe == [op |-> "none"]

Init ==
    \E sa \in ComputeOpts, sb \in ComputeOpts :
      /\ Dist(sa, BaseCompute) + Dist(sb, BaseCompute) <= MaxDiff
      /\ \E vs \in VolumeServiceOpts, i \in InstanceOpts :
           /\ Dist(sa, BaseCompute) + Dist(sb, BaseCompute)
                + Dist(i, BaseInstance)
                + (IF vs = BaseVolumeServices THEN 0 ELSE 1) <= MaxDiff
           /\ services = ServiceTable(vs, sa, sb)
           /\ instances = [id \in InstanceIds |->
                             IF id = "i1" THEN Instance("i1", "A", i)
                             ELSE OtherInstance]
           /\ volumes = VolumeTable(i)
           /\ now = NowInit
           /\ FLAGS = [service_down_time |-> service_down_time]
           /\ probe = NoProbe
           /\ silent = {}
           /\ pc = [c \in Callers |-> "idle"]
           /\ args = [c \in Callers |-> NoArgs]
           /\ instance_ref = [c \in Callers |-> NoRef]
           /\ filename = [c \in Callers |-> "none"]
           /\ vi = [c \in Callers |-> 1]
           /\ result = [c \in Callers |-> NoResult]
           /\ phases = [c \in Callers |-> <<>>]
           /\ passed = [c \in Callers |-> {}]
           /\ reads = [c \in Callers |-> <<>>]
           /\ rpcs = [c \in Callers |-> <<>>]
           /\ replies = [c \in Callers |-> <<>>]
           /\ writes = [c \in Callers |-> <<>>]
           /\ pre = [c \in Callers |-> NoPre]

----------------------------------------------------------------------------
(* The db API the scheduler calls.                                         *)

\* db.instance_get raises NotFound when there is no record.
instance_exists(instance_id) == instance_id \in DOMAIN instances

service_get_all_by_topic(topic) ==
    SelectSeq(services, LAMBDA s : s.topic = topic)

\* The compute services of a host; db.service_get_all_compute_by_host raises
\* NotFound when the sequence is empty.
service_get_all_compute_by_host(host) ==
    SelectSeq(services, LAMBDA s : s.topic = compute_topic /\ s.host = host)

queue_get_for(topic, host) == <<topic, host>>

Read(op, key) == [op |-> op, key |-> key]

Message(queue, method, margs) == [queue |-> queue, method |-> method, args |-> margs]

Write(op, id, values) == [op |-> op, id |-> id, values |-> values]

\* Replies of the remote agents.
Paths == {"/tmp/p1", "/tmp/p2"}
MkTmpFileReplies == Paths \cup {"RemoteError"}
ConfirmTmpFileReplies == {"ok", "RemoteError", "NotFound"}
CompareCpuReplies == {"ok", "RemoteError"}

----------------------------------------------------------------------------
(* Scheduler.                                                              *)

\* Variant: "<=" in place of "<".
service_is_up_le(service) ==
    LET last_heartbeat == IF service.updated_at # <<>>
                          THEN service.updated_at[1]
                          ELSE service.created_at
        elapsed == now - last_heartbeat
    IN  elapsed <= FLAGS.service_down_time

\* Variant: created_at is the heartbeat, whether or not updated_at is set.
service_is_up_created_at(service) ==
    LET last_heartbeat == service.created_at
        elapsed == now - last_heartbeat
    IN  elapsed < FLAGS.service_down_time

\* Variant: the later of the two timestamps is the heartbeat.
service_is_up_latest(service) ==
    LET last_heartbeat == IF service.updated_at # <<>>
                             /\ service.updated_at[1] > service.created_at
                          THEN service.updated_at[1]
                          ELSE service.created_at
        elapsed == now - last_heartbeat
    IN  elapsed < FLAGS.service_down_time

\* last_heartbeat = service['updated_at'] or service['created_at']
\* elapsed = utcnow() - last_heartbeat
\* return elapsed < timedelta(seconds=FLAGS.service_down_time)
service_is_up(service) ==
    LET last_heartbeat == IF service.updated_at # <<>>
                          THEN service.updated_at[1]
                          ELSE service.created_at
        elapsed == now - last_heartbeat
    IN  elapsed < FLAGS.service_down_time

Checked(exc, rd) == [exc |-> exc, reads |-> rd]

\* Variant: "and" in place of "or".
instance_not_running_and(ref) ==
    RUNNING # ref.state /\ "running" # ref.state_description

\* if (power_state.RUNNING != instance_ref['state'] or
\*     'running' != instance_ref['state_description'])
instance_not_running(ref) ==
    RUNNING # ref.state \/ "running" # ref.state_description

\* Variant: only the number of volume services is looked at.
volume_node_not_alive_len_only(vservices) ==
    Len(vservices) < 1

\* if len(services) < 1 or not self.service_is_up(services[0])
volume_node_not_alive(vservices) ==
    Len(vservices) < 1 \/ ~service_is_up(vservices[1])

\* Variant: the source host's record is fetched but its heartbeat is not checked.
live_migration_src_check_no_alive(ref) ==
    IF instance_not_running(ref)
    THEN Checked("Invalid", <<>>)
    ELSE
    LET vservices == service_get_all_by_topic("volume")
        r1 == IF Len(ref.volumes) # 0
              THEN <<Read("service_get_all_by_topic", "volume")>>
              ELSE <<>>
    IN
    IF Len(ref.volumes) # 0 /\ volume_node_not_alive(vservices)
    THEN Checked("Invalid", r1)
    ELSE
    LET src == ref.host
        cservices == service_get_all_compute_by_host(src)
        r2 == Append(r1, Read("service_get_all_compute_by_host", src))
    IN
    IF cservices = <<>> THEN Checked("NotFound", r2)
    ELSE Checked("none", r2)

\* Variant: the volume services are consulted whether or not the instance
\* has volumes.
live_migration_src_check_always_volume(ref) ==
    IF instance_not_running(ref)
    THEN Checked("Invalid", <<>>)
    ELSE
    LET vservices == service_get_all_by_topic("volume")
        r1 == <<Read("service_get_all_by_topic", "volume")>>
    IN
    IF volume_node_not_alive(vservices)
    THEN Checked("Invalid", r1)
    ELSE
    LET src == ref.host
        cservices == service_get_all_compute_by_host(src)
        r2 == Append(r1, Read("service_get_all_compute_by_host", src))
    IN
    IF cservices = <<>> THEN Checked("NotFound", r2)
    ELSE IF ~service_is_up(cservices[1]) THEN Checked("Invalid", r2)
    ELSE Checked("none", r2)

\* Variant: the state of the instance is not looked at.
live_migration_src_check_any_state(ref) ==
    LET vservices == service_get_all_by_topic("volume")
        r1 == IF Len(ref.volumes) # 0
              THEN <<Read("service_get_all_by_topic", "volume")>>
              ELSE <<>>
    IN
    IF Len(ref.volumes) # 0 /\ volume_node_not_alive(vservices)
    THEN Checked("Invalid", r1)
    ELSE
    LET src == ref.host
        cservices == service_get_all_compute_by_host(src)
        r2 == Append(r1, Read("service_get_all_compute_by_host", src))
    IN
    IF cservices = <<>> THEN Checked("NotFound", r2)
    ELSE IF ~service_is_up(cservices[1]) THEN Checked("Invalid", r2)
    ELSE Checked("none", r2)

live_migration_src_check(ref) ==
    IF instance_not_running(ref)
    THEN Checked("Invalid", <<>>)
    ELSE
    LET vservices == service_get_all_by_topic("volume")
        r1 == IF Len(ref.volumes) # 0
              THEN <<Read("service_get_all_by_topic", "volume")>>
              ELSE <<>>
    IN
    IF Len(ref.volumes) # 0 /\ volume_node_not_alive(vservices)
    THEN Checked("Invalid", r1)
    ELSE
    LET src == ref.host
        cservices == service_get_all_compute_by_host(src)
        r2 == Append(r1, Read("service_get_all_compute_by_host", src))
    IN
    IF cservices = <<>> THEN Checked("NotFound", r2)
    ELSE IF ~service_is_up(cservices[1]) THEN Checked("Invalid", r2)
    ELSE Checked("none", r2)

\* Variant: "<" in place of "<=".
has_enough_resources_lt(ref, dest) ==
    LET service_refs == service_get_all_compute_by_host(dest)
        rd == <<Read("service_get_all_compute_by_host", dest)>>
    IN
    IF service_refs = <<>> THEN Checked("NotFound", rd)
    ELSE
    LET compute_service_ref == service_refs[1].compute_service[1]
        mem_avail == compute_service_ref.memory_mb - compute_service_ref.memory_mb_used
    IN
    IF mem_avail < ref.memory_mb THEN Checked("NotEmpty", rd)
    ELSE Checked("none", rd)

has_enough_resources(ref, dest) ==
    LET service_refs == service_get_all_compute_by_host(dest)
        rd == <<Read("service_get_all_compute_by_host", dest)>>
    IN
    IF service_refs = <<>> THEN Checked("NotFound", rd)
    ELSE
    LET compute_service_ref == service_refs[1].compute_service[1]
        mem_total == compute_service_ref.memory_mb
        mem_used == compute_service_ref.memory_mb_used
        mem_avail == mem_total - mem_used
        mem_inst == ref.memory_mb
    IN
    IF mem_avail <= mem_inst THEN Checked("NotEmpty", rd)
    ELSE Checked("none", rd)

\* Variant: the capacity check runs before the comparison of dest and src.
live_migration_dest_check_capacity_first(ref, dest) ==
    LET dservice_refs == service_get_all_compute_by_host(dest)
        r1 == <<Read("service_get_all_compute_by_host", dest)>>
    IN
    IF dservice_refs = <<>> THEN Checked("NotFound", r1)
    ELSE IF ~service_is_up(dservice_refs[1]) THEN Checked("Invalid", r1)
    ELSE LET h == has_enough_resources(ref, dest)
         IN  IF h.exc # "none" THEN Checked(h.exc, r1 \o h.reads)
             ELSE IF dest = ref.host THEN Checked("Invalid", r1 \o h.reads)
             ELSE Checked("none", r1 \o h.reads)

\* Variant: the destination's service is not asked whether it is up.
live_migration_dest_check_no_alive(ref, dest) ==
    LET dservice_refs == service_get_all_compute_by_host(dest)
        r1 == <<Read("service_get_all_compute_by_host", dest)>>
    IN
    IF dservice_refs = <<>> THEN Checked("NotFound", r1)
    ELSE IF dest = ref.host THEN Checked("Invalid", r1)
    ELSE LET h == has_enough_resources(ref, dest)
         IN  Checked(h.exc, r1 \o h.reads)

live_migration_dest_check(ref, dest) ==
    LET dservice_refs == service_get_all_compute_by_host(dest)
        r1 == <<Read("service_get_all_compute_by_host", dest)>>
    IN
    IF dservice_refs = <<>> THEN Checked("NotFound", r1)
    ELSE IF ~service_is_up(dservice_refs[1]) THEN Checked("Invalid", r1)
    ELSE IF dest = ref.host THEN Checked("Invalid", r1)
    ELSE LET h == has_enough_resources(ref, dest)
         IN  Checked(h.exc, r1 \o h.reads)

\* Variant: the hypervisor types are not compared.
live_migration_compat_check_no_type(ref, dest) ==
    LET dservice_refs == service_get_all_compute_by_host(dest)
        r1 == <<Read("service_get_all_compute_by_host", dest)>>
    IN
    IF dservice_refs = <<>> THEN Checked("NotFound", r1)
    ELSE
    LET dservice_ref == dservice_refs[1].compute_service[1]
        oservice_refs == service_get_all_compute_by_host(ref.launched_on)
        r2 == Append(r1, Read("service_get_all_compute_by_host", ref.launched_on))
    IN
    IF oservice_refs = <<>> THEN Checked("Invalid", r2)
    ELSE
    LET oservice_ref == oservice_refs[1].compute_service[1]
    IN
    IF oservice_ref.hypervisor_version > dservice_ref.hypervisor_version
    THEN Checked("Invalid", r2)
    ELSE Checked("none", r2)

\* Variant: ">=" in place of ">" in the comparison of the versions.
live_migration_compat_check_ge(ref, dest) ==
    LET dservice_refs == service_get_all_compute_by_host(dest)
        r1 == <<Read("service_get_all_compute_by_host", dest)>>
    IN
    IF dservice_refs = <<>> THEN Checked("NotFound", r1)
    ELSE
    LET dservice_ref == dservice_refs[1].compute_service[1]
        oservice_refs == service_get_all_compute_by_host(ref.launched_on)
        r2 == Append(r1, Read("service_get_all_compute_by_host", ref.launched_on))
    IN
    IF oservice_refs = <<>> THEN Checked("Invalid", r2)
    ELSE
    LET oservice_ref == oservice_refs[1].compute_service[1]
    IN
    IF oservice_ref.hypervisor_type # dservice_ref.hypervisor_type
    THEN Checked("Invalid", r2)
    ELSE IF oservice_ref.hypervisor_version >= dservice_ref.hypervisor_version
    THEN Checked("Invalid", r2)
    ELSE Checked("none", r2)

\* Variant: the record of the workload's current host is compared with the
\* destination's.
live_migration_compat_check_current_host(ref, dest) ==
    LET dservice_refs == service_get_all_compute_by_host(dest)
        r1 == <<Read("service_get_all_compute_by_host", dest)>>
    IN
    IF dservice_refs = <<>> THEN Checked("NotFound", r1)
    ELSE
    LET dservice_ref == dservice_refs[1].compute_service[1]
        oservice_refs == service_get_all_compute_by_host(ref.host)
        r2 == Append(r1, Read("service_get_all_compute_by_host", ref.host))
    IN
    IF oservice_refs = <<>> THEN Checked("Invalid", r2)
    ELSE
    LET oservice_ref == oservice_refs[1].compute_service[1]
    IN
    IF oservice_ref.hypervisor_type # dservice_ref.hypervisor_type
    THEN Checked("Invalid", r2)
    ELSE IF oservice_ref.hypervisor_version > dservice_ref.hypervisor_version
    THEN Checked("Invalid", r2)
    ELSE Checked("none", r2)

\* Variant: NotFound from the lookup of the launch host's record is not
\* caught.
live_migration_compat_check_no_handler(ref, dest) ==
    LET dservice_refs == service_get_all_compute_by_host(dest)
        r1 == <<Read("service_get_all_compute_by_host", dest)>>
    IN
    IF dservice_refs = <<>> THEN Checked("NotFound", r1)
    ELSE
    LET dservice_ref == dservice_refs[1].compute_service[1]
        oservice_refs == service_get_all_compute_by_host(ref.launched_on)
        r2 == Append(r1, Read("service_get_all_compute_by_host", ref.launched_on))
    IN
    IF oservice_refs = <<>> THEN Checked("NotFound", r2)
    ELSE
    LET oservice_ref == oservice_refs[1].compute_service[1]
    IN
    IF oservice_ref.hypervisor_type # dservice_ref.hypervisor_type
    THEN Checked("Invalid", r2)
    ELSE IF oservice_ref.hypervisor_version > dservice_ref.hypervisor_version
    THEN Checked("Invalid", r2)
    ELSE Checked("none", r2)

\* Lines 190-216 of _live_migration_common_check: the records of the
\* destination and of the launch host, then hypervisor type and version.
live_migration_compat_check(ref, dest) ==
    LET dservice_refs == service_get_all_compute_by_host(dest)
        r1 == <<Read("service_get_all_compute_by_host", dest)>>
    IN
    IF dservice_refs = <<>> THEN Checked("NotFound", r1)
    ELSE
    LET dservice_ref == dservice_refs[1].compute_service[1]
        oservice_refs == service_get_all_compute_by_host(ref.launched_on)
        r2 == Append(r1, Read("service_get_all_compute_by_host", ref.launched_on))
    IN
    IF oservice_refs = <<>> THEN Checked("Invalid", r2)
    ELSE
    LET oservice_ref == oservice_refs[1].compute_service[1]
    IN
    IF oservice_ref.hypervisor_type # dservice_ref.hypervisor_type
    THEN Checked("Invalid", r2)
    ELSE IF oservice_ref.hypervisor_version > dservice_ref.hypervisor_version
    THEN Checked("Invalid", r2)
    ELSE Checked("none", r2)

\* The cpu_info sent with compare_cpu: that of the launch host's record.
compare_cpu_info(ref) ==
    LET oservice_refs == service_get_all_compute_by_host(ref.launched_on)
    IN  IF oservice_refs = <<>> THEN "none"
        ELSE oservice_refs[1].compute_service[1].cpu_info

\* except rpc.RemoteError around mktmpfile: the handler calls LOG.error, and
\* the module defines no LOG, so NameError replaces the RemoteError.
mktmpfile_except(exc) == "NameError"

\* except (rpc.RemoteError, exception.NotFound) around confirm_tmpfile:
\* logs and re-raises.
confirm_tmpfile_except(exc) == exc

\* Variant: the handler around compare_cpu logs and does not re-raise.
compare_cpu_except_swallow(exc) == "none"

\* except rpc.RemoteError around compare_cpu: logs and re-raises.
compare_cpu_except(exc) == exc

\* Variant: the description is set and the power state is left RUNNING.
migrating_state_running == <<RUNNING, "migrating">>

\* Variant: the volumes are given back the status of an attached volume.
migrating_status_in_use == "in-use"

\* The state and state_description schedule_live_migration passes to
\* db.instance_set_state, and the status it passes to db.volume_update.
migrating_state == <<PAUSED, "migrating">>
migrating_status == "migrating"

\* Variant: the id is taken from a record kept in one place for all callers
\* (the one the first caller loaded), not from the call's own argument.
set_state_instance_id_shared(c) ==
    IF instance_ref["c1"].id \in DOMAIN instances
    THEN instance_ref["c1"].id
    ELSE args[c].instance_id

\* Variant: the state is set on some instance of the table, whichever the
\* call was made for.
set_state_instance_id_any(c) == CHOOSE id \in DOMAIN instances : TRUE

\* The instance_id argument of the call, as passed to db.instance_set_state.
set_state_instance_id(c) == args[c].instance_id

\* Variant: the launch host is returned.
returned_host_launched_on(ref, dest) == ref.launched_on

\* src = instance_ref['host']; return src
returned_host(ref, dest) == ref.host

\* Variant: the destination check is called before the source check.
AfterStep_dest_first(step) ==
    CASE step = "load" -> "dest_check"
      [] step = "dest_check" -> "src_check"
      [] step = "src_check" -> "mktmpfile"
      [] step = "mktmpfile" -> "confirm_tmpfile"
      [] step = "confirm_tmpfile" -> "compat_check"
      [] step = "compat_check" -> "compare_cpu"
      [] step = "compare_cpu" -> "set_state"
      [] step = "set_state" -> "volume_update"

\* Variant: the source is asked to confirm the file before the destination
\* is asked to create it.
AfterStep_confirm_first(step) ==
    CASE step = "load" -> "src_check"
      [] step = "src_check" -> "dest_check"
      [] step = "dest_check" -> "confirm_tmpfile"
      [] step = "confirm_tmpfile" -> "mktmpfile"
      [] step = "mktmpfile" -> "compat_check"
      [] step = "compat_check" -> "compare_cpu"
      [] step = "compare_cpu" -> "set_state"
      [] step = "set_state" -> "volume_update"

\* Variant: the storage probe runs between the source check and the
\* destination check.
AfterStep_probe_before_dest(step) ==
    CASE step = "load" -> "src_check"
      [] step = "src_check" -> "mktmpfile"
      [] step = "mktmpfile" -> "confirm_tmpfile"
      [] step = "confirm_tmpfile" -> "dest_check"
      [] step = "dest_check" -> "compat_check"
      [] step = "compat_check" -> "compare_cpu"
      [] step = "compare_cpu" -> "set_state"
      [] step = "set_state" -> "volume_update"

\* The order of schedule_live_migration: what runs after a step returns.
AfterStep(step) ==
    CASE step = "load" -> "src_check"
      [] step = "src_check" -> "dest_check"
      [] step = "dest_check" -> "mktmpfile"
      [] step = "mktmpfile" -> "confirm_tmpfile"
      [] step = "confirm_tmpfile" -> "compat_check"
      [] step = "compat_check" -> "compare_cpu"
      [] step = "compare_cpu" -> "set_state"
      [] step = "set_state" -> "volume_update"

\* Variant: the exception of a step is caught and the call goes on.
Outcome_swallow(step, exc) ==
    [pc |-> AfterStep(step), result |-> NoResult]

\* Variant: the call goes on to the source check when the load raises.
Outcome_load_continues(step, exc) ==
    IF exc = "none" \/ step = "load"
    THEN [pc |-> AfterStep(step), result |-> NoResult]
    ELSE [pc |-> "done", result |-> [kind |-> "raised", value |-> exc]]

\* A step that raises ends the call with the exception (nothing in
\* schedule_live_migration catches), one that returns moves on.
Outcome(step, exc) ==
    IF exc = "none"
    THEN [pc |-> AfterStep(step), result |-> NoResult]
    ELSE [pc |-> "done", result |-> [kind |-> "raised", value |-> exc]]

Proceed(c, step, exc) ==
    /\ pc' = [pc EXCEPT ![c] = Outcome(step, exc).pc]
    /\ result' = [result EXCEPT ![c] = Outcome(step, exc).result]

----------------------------------------------------------------------------
(* schedule_live_migration(context, instance_id, dest), step by step.      *)

Begin(c, instance_id, dest) ==
    /\ pc[c] \in {"idle", "done"}
    /\ pc' = [pc EXCEPT ![c] = "load"]
    /\ args' = [args EXCEPT ![c] = [instance_id |-> instance_id, dest |-> dest]]
    /\ instance_ref' = [instance_ref EXCEPT ![c] = NoRef]
    /\ filename' = [filename EXCEPT ![c] = "none"]
    /\ vi' = [vi EXCEPT ![c] = 1]
    /\ result' = [result EXCEPT ![c] = NoResult]
    /\ phases' = [phases EXCEPT ![c] = <<>>]
    /\ passed' = [passed EXCEPT ![c] = {}]
    /\ reads' = [reads EXCEPT ![c] = <<>>]
    /\ rpcs' = [rpcs EXCEPT ![c] = <<>>]
    /\ replies' = [replies EXCEPT ![c] = <<>>]
    /\ writes' = [writes EXCEPT ![c] = <<>>]
    /\ pre' = [pre EXCEPT ![c] = [instances |-> instances, volumes |-> volumes]]
    /\ UNCHANGED <<dbvars, FLAGS, silent, probe>>

\* instance_ref = db.instance_get(context, instance_id)
Load(c) ==
    /\ pc[c] = "load"
    /\ phases' = [phases EXCEPT ![c] = Append(@, "load")]
    /\ reads' = [reads EXCEPT ![c] = Append(@, Read("instance_get", args[c].instance_id))]
    /\ IF instance_exists(args[c].instance_id)
       THEN /\ instance_ref' = [instance_ref EXCEPT ![c] = instances[args[c].instance_id]]
            /\ passed' = [passed EXCEPT ![c] = @ \cup {"load"}]
            /\ Proceed(c, "load", "none")
       ELSE /\ Proceed(c, "load", "NotFound")
            /\ UNCHANGED <<instance_ref, passed>>
    /\ UNCHANGED <<dbvars, args, filename, vi, rpcs, replies, writes, pre, FLAGS, silent, probe>>

\* self._live_migration_src_check(context, instance_ref)
SrcCheck(c) ==
    /\ pc[c] = "src_check"
    /\ LET r == live_migration_src_check(instance_ref[c])
       IN  /\ phases' = [phases EXCEPT ![c] = Append(@, "src")]
           /\ reads' = [reads EXCEPT ![c] = @ \o r.reads]
           /\ passed' = [passed EXCEPT ![c] = IF r.exc = "none" THEN @ \cup {"src"} ELSE @]
           /\ Proceed(c, "src_check", r.exc)
    /\ UNCHANGED <<dbvars, args, instance_ref, filename, vi, rpcs, replies, writes, pre, FLAGS, silent, probe>>

\* Variant: a destination that passes the check has the instance's memory
\* booked in its compute record.
DestCheck_reserving(c) ==
    /\ pc[c] = "dest_check"
    /\ LET r == live_migration_dest_check(instance_ref[c], args[c].dest)
       IN  /\ phases' = [phases EXCEPT ![c] = Append(@, "dest")]
           /\ reads' = [reads EXCEPT ![c] = @ \o r.reads]
           /\ passed' = [passed EXCEPT ![c] = IF r.exc = "none" THEN @ \cup {"dest"} ELSE @]
           /\ Proceed(c, "dest_check", r.exc)
           /\ services' =
                 [k \in 1 .. Len(services) |->
                    IF /\ r.exc = "none"
                       /\ services[k].topic = compute_topic
                       /\ services[k].host = args[c].dest
                    THEN [services[k] EXCEPT
                            !.compute_service[1].memory_mb_used =
                                @ + instance_ref[c].memory_mb]
                    ELSE services[k]]
    /\ UNCHANGED <<instances, volumes, now, args, instance_ref, filename, vi, rpcs,
                   replies, writes, pre, FLAGS, silent, probe>>

\* self._live_migration_dest_check(context, instance_ref, dest)
DestCheck(c) ==
    /\ pc[c] = "dest_check"
    /\ LET r == live_migration_dest_check(instance_ref[c], args[c].dest)
       IN  /\ phases' = [phases EXCEPT ![c] = Append(@, "dest")]
           /\ reads' = [reads EXCEPT ![c] = @ \o r.reads]
           /\ passed' = [passed EXCEPT ![c] = IF r.exc = "none" THEN @ \cup {"dest"} ELSE @]
           /\ Proceed(c, "dest_check", r.exc)
    /\ UNCHANGED <<dbvars, args, instance_ref, filename, vi, rpcs, replies, writes, pre, FLAGS, silent, probe>>

\* _live_migration_common_check, mounted_on_same_shared_storage:
\* filename = rpc.call(context, dst_t, {"method": 'mktmpfile'})
\* rpc.call is passed no timeout: it returns or raises once the agent of the
\* queue's host has answered, and not before.
MkTmpFile(c) ==
    /\ pc[c] = "mktmpfile"
    /\ args[c].dest \notin silent
    /\ phases' = [phases EXCEPT ![c] = Append(@, "common")]
    /\ rpcs' = [rpcs EXCEPT ![c] =
                  Append(@, Message(queue_get_for(compute_topic, args[c].dest),
                                    "mktmpfile", <<>>))]
    /\ \E reply \in MkTmpFileReplies :
         /\ replies' = [replies EXCEPT ![c] = Append(@, reply)]
         /\ IF reply \in Paths
            THEN /\ filename' = [filename EXCEPT ![c] = reply]
                 /\ Proceed(c, "mktmpfile", "none")
            ELSE /\ Proceed(c, "mktmpfile", mktmpfile_except(reply))
                 /\ UNCHANGED filename
    /\ UNCHANGED <<dbvars, args, instance_ref, vi, passed, reads, writes, pre, FLAGS, silent, probe>>

\* rpc.call(context, src_t, {"method": 'confirm_tmpfile', "args": {'path': filename}})
ConfirmTmpFile(c) ==
    /\ pc[c] = "confirm_tmpfile"
    /\ instance_ref[c].host \notin silent
    /\ rpcs' = [rpcs EXCEPT ![c] =
                  Append(@, Message(queue_get_for(compute_topic, instance_ref[c].host),
                                    "confirm_tmpfile", <<filename[c]>>))]
    /\ \E reply \in ConfirmTmpFileReplies :
         /\ replies' = [replies EXCEPT ![c] = Append(@, reply)]
         /\ IF reply = "ok"
            THEN Proceed(c, "confirm_tmpfile", "none")
            ELSE Proceed(c, "confirm_tmpfile", confirm_tmpfile_except(reply))
    /\ UNCHANGED <<dbvars, args, instance_ref, filename, vi, phases, passed, reads,
                   writes, pre, FLAGS, silent, probe>>

\* _live_migration_common_check after the storage check, up to the version check
CompatCheck(c) ==
    /\ pc[c] = "compat_check"
    /\ LET r == live_migration_compat_check(instance_ref[c], args[c].dest)
       IN  /\ reads' = [reads EXCEPT ![c] = @ \o r.reads]
           /\ Proceed(c, "compat_check", r.exc)
    /\ UNCHANGED <<dbvars, args, instance_ref, filename, vi, phases, passed, rpcs, replies,
                   writes, pre, FLAGS, silent, probe>>

\* rpc.call(context, queue of dest, {"method": 'compare_cpu', "args": {'cpu_info': ...}})
CompareCpu(c) ==
    /\ pc[c] = "compare_cpu"
    /\ args[c].dest \notin silent
    /\ rpcs' = [rpcs EXCEPT ![c] =
                  Append(@, Message(queue_get_for(compute_topic, args[c].dest),
                                    "compare_cpu", <<compare_cpu_info(instance_ref[c])>>))]
    /\ \E reply \in CompareCpuReplies :
         /\ replies' = [replies EXCEPT ![c] = Append(@, reply)]
         /\ IF reply = "ok"
            THEN /\ passed' = [passed EXCEPT ![c] = @ \cup {"common"}]
                 /\ Proceed(c, "compare_cpu", "none")
            ELSE /\ Proceed(c, "compare_cpu", compare_cpu_except(reply))
                 /\ UNCHANGED passed
    /\ UNCHANGED <<dbvars, args, instance_ref, filename, vi, phases, reads, writes, pre, FLAGS, silent, probe>>

\* Variant: a failure of db.instance_set_state is ignored and the call goes
\* on to the volumes.
SetState_failure_ignored(c) ==
    /\ pc[c] = "set_state"
    /\ phases' = [phases EXCEPT ![c] = Append(@, "transition")]
    /\ writes' = [writes EXCEPT ![c] =
                    Append(@, Write("instance_set_state", set_state_instance_id(c),
                                    migrating_state))]
    /\ \E stored \in BOOLEAN :
         IF stored
         THEN /\ instances' = [instances EXCEPT ![set_state_instance_id(c)] =
                                 [@ EXCEPT !.state = migrating_state[1],
                                           !.state_description = migrating_state[2]]]
              /\ Proceed(c, "set_state", "none")
         ELSE /\ Proceed(c, "set_state", "none")
              /\ UNCHANGED instances
    /\ UNCHANGED <<volumes, services, now, args, instance_ref, filename, vi, passed,
                   reads, rpcs, replies, pre, FLAGS, silent, probe>>

\* db.instance_set_state(context, instance_id, power_state.PAUSED, 'migrating')
SetState(c) ==
    /\ pc[c] = "set_state"
    /\ phases' = [phases EXCEPT ![c] = Append(@, "transition")]
    /\ writes' = [writes EXCEPT ![c] =
                    Append(@, Write("instance_set_state", set_state_instance_id(c),
                                    migrating_state))]
    /\ \E stored \in BOOLEAN :
         IF stored
         THEN /\ instances' = [instances EXCEPT ![set_state_instance_id(c)] =
                                 [@ EXCEPT !.state = migrating_state[1],
                                           !.state_description = migrating_state[2]]]
              /\ Proceed(c, "set_state", "none")
         ELSE /\ Proceed(c, "set_state", "DBError")
              /\ UNCHANGED instances
    /\ UNCHANGED <<volumes, services, now, args, instance_ref, filename, vi, passed,
                   reads, rpcs, replies, pre, FLAGS, silent, probe>>

\* for v in instance_ref['volumes']: db.volume_update(context, v['id'], {'status': 'migrating'})
VolumeUpdate(c) ==
    /\ pc[c] = "volume_update"
    /\ vi[c] <= Len(instance_ref[c].volumes)
    /\ LET v == instance_ref[c].volumes[vi[c]]
       IN  /\ writes' = [writes EXCEPT ![c] =
                           Append(@, Write("volume_update", v, <<migrating_status>>))]
           /\ \E stored \in BOOLEAN :
                IF stored
                THEN /\ volumes' = [volumes EXCEPT ![v] = migrating_status]
                     /\ vi' = [vi EXCEPT ![c] = @ + 1]
                     /\ UNCHANGED <<pc, result>>
                ELSE /\ pc' = [pc EXCEPT ![c] = "done"]
                     /\ result' = [result EXCEPT ![c] = [kind |-> "raised", value |-> "DBError"]]
                     /\ UNCHANGED <<volumes, vi>>
    /\ UNCHANGED <<instances, services, now, args, instance_ref, filename, phases,
                   passed, reads, rpcs, replies, pre, FLAGS, silent, probe>>

\* src = instance_ref['host']; return src
Return(c) ==
    /\ pc[c] = "volume_update"
    /\ vi[c] > Len(instance_ref[c].volumes)
    /\ pc' = [pc EXCEPT ![c] = "done"]
    /\ result' = [result EXCEPT ![c] = [kind |-> "returned",
                                       value |-> returned_host(instance_ref[c], args[c].dest)]]
    /\ passed' = [passed EXCEPT ![c] = @ \cup {"transition"}]
    /\ UNCHANGED <<dbvars, args, instance_ref, filename, vi, phases, reads, rpcs, replies,
                   writes, pre, FLAGS, silent, probe>>

Step(c) ==
    \/ Load(c)
    \/ SrcCheck(c)
    \/ DestCheck(c)
    \/ MkTmpFile(c)
    \/ ConfirmTmpFile(c)
    \/ CompatCheck(c)
    \/ CompareCpu(c)
    \/ SetState(c)
    \/ VolumeUpdate(c)
    \/ Return(c)

\* One caller, issuing calls one after another.
Next ==
    \/ \E instance_id \in RequestIds, dest \in Dests : Begin("c1", instance_id, dest)
    \/ Step("c1")

Spec == Init /\ [][Next]_vars

----------------------------------------------------------------------------
(* service_is_up, hosts_up and schedule, called on their own.               *)

\* Variant: the services of the topic are not filtered by service_is_up.
hosts_up_unfiltered(topic) ==
    LET svcs == service_get_all_by_topic(topic)
    IN  [k \in 1 .. Len(svcs) |-> svcs[k].host]

\* return [service.host for service in services if self.service_is_up(service)]
hosts_up(topic) ==
    LET svcs == service_get_all_by_topic(topic)
        up == SelectSeq(svcs, service_is_up)
    IN  [k \in 1 .. Len(up) |-> up[k].host]

\* Variant: a fallback that reads the services of the topic and returns.
schedule_fallback(topic) ==
    Checked("none", <<Read("service_get_all_by_topic", topic)>>)

\* raise NotImplementedError(_("Must implement a fallback schedule"))
schedule(topic) == Checked("NotImplementedError", <<>>)

Topics == {compute_topic, "volume"}

Stamps == 0 .. MaxStamp

\* The service records drawn for the liveness operations: any topic, any
\* created_at, updated_at absent (None) or any stamp.
ServiceOpts ==
    [topic : Topics, created_at : Stamps,
     updated_at : {<<>>} \cup {<<t>> : t \in Stamps}]

ProbedService(h, s) ==
    [host |-> h, topic |-> s.topic, created_at |-> s.created_at,
     updated_at |-> s.updated_at, compute_service |-> <<>>]

\* No service, a service on A, or one on A followed by one on B; any flag
\* value, and a clock that no timestamp is ahead of.
DriverInit ==
    /\ \/ services = <<>>
       \/ \E sa \in ServiceOpts : services = <<ProbedService("A", sa)>>
       \/ \E sa \in ServiceOpts, sb \in ServiceOpts :
             services = <<ProbedService("A", sa), ProbedService("B", sb)>>
    /\ FLAGS \in [service_down_time : 1 .. MaxThreshold]
    /\ now \in MaxStamp .. MaxStamp + MaxThreshold
    /\ probe = NoProbe
    /\ silent = {}
    /\ instances = [id \in InstanceIds |->
                      IF id = "i1" THEN Instance("i1", "A", BaseInstance)
                      ELSE OtherInstance]
    /\ volumes = VolumeTable(BaseInstance)
    /\ pc = [c \in Callers |-> "idle"]
    /\ args = [c \in Callers |-> NoArgs]
    /\ instance_ref = [c \in Callers |-> NoRef]
    /\ filename = [c \in Callers |-> "none"]
    /\ vi = [c \in Callers |-> 1]
    /\ result = [c \in Callers |-> NoResult]
    /\ phases = [c \in Callers |-> <<>>]
    /\ passed = [c \in Callers |-> {}]
    /\ reads = [c \in Callers |-> <<>>]
    /\ rpcs = [c \in Callers |-> <<>>]
    /\ replies = [c \in Callers |-> <<>>]
    /\ writes = [c \in Callers |-> <<>>]
    /\ pre = [c \in Callers |-> NoPre]

callvars == <<pc, args, instance_ref, filename, vi, result, phases, passed,
              reads, rpcs, replies, writes, pre>>

\* Scheduler.service_is_up(services[k])
ServiceIsUp(k) ==
    /\ k \in 1 .. Len(services)
    /\ probe' = [op |-> "service_is_up", service |-> services[k], at |-> now,
                 value |-> service_is_up(services[k])]
    /\ UNCHANGED <<dbvars, FLAGS, silent, callvars>>

\* self.hosts_up(context, topic)
HostsUp(c, topic) ==
    /\ pc[c] = "idle"
    /\ probe' = [op |-> "hosts_up", topic |-> topic, at |-> now,
                 value |-> hosts_up(topic)]
    /\ reads' = [reads EXCEPT ![c] = <<Read("service_get_all_by_topic", topic)>>]
    /\ UNCHANGED <<dbvars, FLAGS, silent, pc, args, instance_ref, filename, vi, result,
                   phases, passed, rpcs, replies, writes, pre>>

\* self.schedule(context, topic, *_args, **_kwargs)
Schedule(c, topic) ==
    /\ pc[c] = "idle"
    /\ probe' = [op |-> "schedule", topic |-> topic, at |-> now,
                 value |-> schedule(topic).exc]
    /\ reads' = [reads EXCEPT ![c] = schedule(topic).reads]
    /\ UNCHANGED <<dbvars, FLAGS, silent, pc, args, instance_ref, filename, vi, result,
                   phases, passed, rpcs, replies, writes, pre>>

\* Time passes between two calls.
Tick ==
    /\ now < MaxStamp + MaxThreshold
    /\ now' = now + 1
    /\ UNCHANGED <<instances, volumes, services, FLAGS, silent, probe, callvars>>

DriverNext ==
    \/ \E k \in 1 .. 2 : ServiceIsUp(k)
    \/ \E topic \in Topics : HostsUp("c1", topic)
    \/ \E topic \in Topics : Schedule("c1", topic)
    \/ Tick

DriverSpec == DriverInit /\ [][DriverNext]_vars

----------------------------------------------------------------------------
(* Two callers, each making one call of schedule_live_migration; their     *)
(* steps interleave in every order (nothing in the method takes a lock).   *)

\* The deployment of the end-to-end example, with the workload i1 as drawn.
ConcurrentInit ==
    /\ \E i \in InstanceOpts :
         /\ Dist(i, BaseInstance) <= MaxDiff - 1
         /\ instances = [id \in InstanceIds |->
                           IF id = "i1" THEN Instance("i1", "A", i)
                           ELSE OtherInstance]
         /\ volumes = VolumeTable(i)
    /\ services = ServiceTable(BaseVolumeServices, BaseCompute, BaseCompute)
    /\ now = NowInit
    /\ FLAGS = [service_down_time |-> service_down_time]
    /\ probe = NoProbe
    /\ silent = {}
    /\ pc = [c \in Callers |-> "idle"]
    /\ args = [c \in Callers |-> NoArgs]
    /\ instance_ref = [c \in Callers |-> NoRef]
    /\ filename = [c \in Callers |-> "none"]
    /\ vi = [c \in Callers |-> 1]
    /\ result = [c \in Callers |-> NoResult]
    /\ phases = [c \in Callers |-> <<>>]
    /\ passed = [c \in Callers |-> {}]
    /\ reads = [c \in Callers |-> <<>>]
    /\ rpcs = [c \in Callers |-> <<>>]
    /\ replies = [c \in Callers |-> <<>>]
    /\ writes = [c \in Callers |-> <<>>]
    /\ pre = [c \in Callers |-> NoPre]

\* The first call of a caller.
BeginOnce(c, instance_id, dest) ==
    /\ pc[c] = "idle"
    /\ Begin(c, instance_id, dest)

ConcurrentNext ==
    \E c \in Callers :
        \/ \E instance_id \in InstanceIds, dest \in Hosts :
              BeginOnce(c, instance_id, dest)
        \/ Step(c)

ConcurrentSpec == ConcurrentInit /\ [][ConcurrentNext]_vars

----------------------------------------------------------------------------
(* One caller, and compute agents that may never answer.  A call that has  *)
(* begun keeps running: its next statement is executed whenever there is   *)
(* one to execute (weak fairness of the call's steps).                     *)

AgentInit ==
    /\ \E i \in InstanceOpts :
         /\ Dist(i, BaseInstance) <= MaxDiff - 1
         /\ instances = [id \in InstanceIds |->
                           IF id = "i1" THEN Instance("i1", "A", i)
                           ELSE OtherInstance]
         /\ volumes = VolumeTable(i)
    /\ services = ServiceTable(BaseVolumeServices, BaseCompute, BaseCompute)
    /\ now = NowInit
    /\ FLAGS = [service_down_time |-> service_down_time]
    /\ probe = NoProbe
    /\ silent \in SUBSET Hosts
    /\ pc = [c \in Callers |-> "idle"]
    /\ args = [c \in Callers |-> NoArgs]
    /\ instance_ref = [c \in Callers |-> NoRef]
    /\ filename = [c \in Callers |-> "none"]
    /\ vi = [c \in Callers |-> 1]
    /\ result = [c \in Callers |-> NoResult]
    /\ phases = [c \in Callers |-> <<>>]
    /\ passed = [c \in Callers |-> {}]
    /\ reads = [c \in Callers |-> <<>>]
    /\ rpcs = [c \in Callers |-> <<>>]
    /\ replies = [c \in Callers |-> <<>>]
    /\ writes = [c \in Callers |-> <<>>]
    /\ pre = [c \in Callers |-> NoPre]

AgentSpec == AgentInit /\ [][Next]_vars /\ WF_vars(Step("c1"))

----------------------------------------------------------------------------
(* Vocabulary of the properties.                                           *)

Last(s) == s[Len(s)]

IsPrefix(s, t) == Len(s) <= Len(t) /\ \A k \in 1 .. Len(s) : s[k] = t[k]

Count(s, x) == Cardinality({k \in 1 .. Len(s) : s[k] = x})

Started(c) == pc[c] # "idle"
Done(c) == pc[c] = "done"
Returned(c) == Done(c) /\ result[c].kind = "returned"
Raised(c) == Done(c) /\ result[c].kind = "raised"
RaisedKind(c, kind) == Raised(c) /\ result[c].value = kind

\* The call has loaded its instance record.
Loaded(c) == "load" \in passed[c]

\* The phase has been run by the call (it returned or raised).
Ran(c, phase) == InSeq(phase, phases[c])

\* The workload of the call, as it was when the call began.
Workload(c) == pre[c].instances[args[c].instance_id]

WorkloadRunning(c) ==
    Workload(c).state = "RUNNING" /\ Workload(c).state_description = "running"

\* The call has changed nothing in the repository.
NoMutation(c) ==
    /\ writes[c] = <<>>
    /\ instances = pre[c].instances
    /\ volumes = pre[c].volumes

ComputeRecords(host) ==
    {k \in 1 .. Len(services) :
        services[k].topic = "compute" /\ services[k].host = host}

HostAbsent(host) == ComputeRecords(host) = {}

HostDown(host) ==
    /\ ComputeRecords(host) # {}
    /\ \A k \in ComputeRecords(host) : ~service_is_up(services[k])

HostAvailable(host) ==
    LET k == CHOOSE k \in ComputeRecords(host) : TRUE
    IN  services[k].compute_service[1].memory_mb
          - services[k].compute_service[1].memory_mb_used

VolumeRecords == {k \in 1 .. Len(services) : services[k].topic = "volume"}

SomeVolumeServiceUp == \E k \in VolumeRecords : service_is_up(services[k])

ReadInstance(c) == Read("instance_get", args[c].instance_id)
ReadVolumeServices == Read("service_get_all_by_topic", "volume")
ReadCompute(host) == Read("service_get_all_compute_by_host", host)

PhaseOrder == <<"load", "src", "dest", "common", "transition">>

----------------------------------------------------------------------------
(* C1: a call that has not passed the load and all three check phases      *)
(* (it failed in one of them, or was abandoned before the transition) has  *)
(* issued no instance_set_state and no volume_update, and the instances    *)
(* and volumes are as they were when the call began.                       *)
C1_NoWriteBeforeTransition ==
    \A c \in Callers :
        (Started(c) /\ ~({"load", "src", "dest", "common"} \subseteq passed[c]))
            => NoMutation(c)

\* A call that failed in the common check, after two passed phases.
C1_Witness ==
    \E c \in Callers :
        /\ Raised(c)
        /\ Last(phases[c]) = "common"
        /\ passed[c] = {"load", "src", "dest"}
        /\ NoMutation(c)

(* C2: the phases of a call start in the order load, source check,         *)
(* destination check, common check, transition; a phase starts only when   *)
(* the one before it has returned without raising; writes are issued only  *)
(* in the transition, after the common check has passed; and a phase that  *)
(* raised is the last phase of the call.                                   *)
C2_PhasesInOrder ==
    \A c \in Callers :
        /\ IsPrefix(phases[c], PhaseOrder)
        /\ \A k \in 2 .. Len(phases[c]) : phases[c][k - 1] \in passed[c]
        /\ writes[c] # <<>> =>
              ("common" \in passed[c] /\ Last(phases[c]) = "transition")
        /\ Raised(c) => Last(phases[c]) \notin passed[c]

\* A call that ran all five phases and returned.
C2_Witness ==
    \E c \in Callers : Returned(c) /\ phases[c] = PhaseOrder

(* C3: when a call has ended with the three check phases passed and no     *)
(* write failed, it has returned, the workload is PAUSED / 'migrating',    *)
(* every volume attached to the workload has status 'migrating', and the   *)
(* writes are the one state write followed by one status write per         *)
(* attached volume (so with no attached volume only the workload changes). *)
C3_TransitionApplied ==
    \A c \in Callers :
        (Done(c) /\ {"src", "dest", "common"} \subseteq passed[c]
                 /\ ~RaisedKind(c, "DBError")) =>
            /\ Returned(c)
            /\ instances[args[c].instance_id].state = "PAUSED"
            /\ instances[args[c].instance_id].state_description = "migrating"
            /\ \A k \in 1 .. Len(Workload(c).volumes) :
                  volumes[Workload(c).volumes[k]] = "migrating"
            /\ \A v \in VolumeIds :
                  ~InSeq(v, Workload(c).volumes) => volumes[v] = pre[c].volumes[v]
            /\ writes[c] =
                  <<Write("instance_set_state", args[c].instance_id,
                          <<"PAUSED", "migrating">>)>>
                  \o [k \in 1 .. Len(Workload(c).volumes) |->
                        Write("volume_update", Workload(c).volumes[k], <<"migrating">>)]

\* A successful call on a workload with two attached volumes.
C3_Witness ==
    \E c \in Callers :
        /\ Returned(c)
        /\ Len(Workload(c).volumes) = 2
        /\ instances[args[c].instance_id].state = "PAUSED"

(* C4: a call that returns returns the host the workload was on when the   *)
(* call began: not the destination, and not the launch host when that is   *)
(* another host.                                                           *)
C4_ReturnsCurrentHost ==
    \A c \in Callers :
        Returned(c) =>
            /\ result[c].value = Workload(c).host
            /\ result[c].value # args[c].dest
            /\ Workload(c).launched_on # Workload(c).host
                  => result[c].value # Workload(c).launched_on

\* A successful call on a workload launched on another host than its current one.
C4_Witness ==
    \E c \in Callers :
        /\ Returned(c)
        /\ Workload(c).launched_on # Workload(c).host

(* C5: for a workload whose state is not RUNNING or whose                  *)
(* state_description is not 'running', the call sends no remote call and   *)
(* ends, in the source check, with Invalid.                                *)
C5_NotRunningIsInvalid ==
    \A c \in Callers :
        (Loaded(c) /\ ~WorkloadRunning(c)) =>
            /\ rpcs[c] = <<>>
            /\ pc[c] = "src_check" \/ (RaisedKind(c, "Invalid") /\ Last(phases[c]) = "src")

\* Rejected on the state_description alone: the power state is RUNNING.
C5_Witness ==
    \E c \in Callers :
        /\ RaisedKind(c, "Invalid")
        /\ Workload(c).state = "RUNNING"
        /\ Workload(c).state_description # "running"
        /\ rpcs[c] = <<>>

(* C6: when the source check has passed and dest is the workload's current *)
(* host, the call ends in the destination check with Invalid: the          *)
(* capacity check has not read the destination's record, no remote call    *)
(* was sent and nothing was written.                                       *)
C6_SelfMigrationIsInvalid ==
    \A c \in Callers :
        ("src" \in passed[c] /\ args[c].dest = Workload(c).host) =>
            \/ pc[c] = "dest_check"
            \/ /\ RaisedKind(c, "Invalid")
               /\ Last(phases[c]) = "dest"
               /\ Count(reads[c], ReadCompute(args[c].dest)) = 2
               /\ Last(reads[c]) = ReadCompute(args[c].dest)
               /\ rpcs[c] = <<>>
               /\ NoMutation(c)

\* A call rejected for naming the current host as destination.
C6_Witness ==
    \E c \in Callers :
        /\ "src" \in passed[c]
        /\ args[c].dest = Workload(c).host
        /\ RaisedKind(c, "Invalid")

\* The destination check of the call got as far as has_enough_resources.
CapacityChecked(c) ==
    /\ "src" \in passed[c]
    /\ Ran(c, "dest")
    /\ ~HostAbsent(args[c].dest)
    /\ ~HostDown(args[c].dest)
    /\ args[c].dest # Workload(c).host

(* C7: has_enough_resources passes exactly when memory_mb - memory_mb_used *)
(* of the destination's compute record is greater than the memory_mb of    *)
(* the instance; when it is equal or less the call ends with NotEmpty, the *)
(* capacity error, and not with Invalid.                                   *)
C7_CapacityIsStrict ==
    \A c \in Callers :
        CapacityChecked(c) =>
            /\ HostAvailable(args[c].dest) <= Workload(c).memory_mb
                  => (RaisedKind(c, "NotEmpty") /\ Last(phases[c]) = "dest")
            /\ HostAvailable(args[c].dest) > Workload(c).memory_mb
                  => "dest" \in passed[c]

\* The boundary: available memory equal to the requested memory.
C7_Witness ==
    \E c \in Callers :
        /\ CapacityChecked(c)
        /\ HostAvailable(args[c].dest) = Workload(c).memory_mb
        /\ RaisedKind(c, "NotEmpty")

(* C8: for a running workload with an attached volume, when no volume      *)
(* service is registered and up the call ends in the source check with     *)
(* Invalid, having read only the instance and the volume services (no      *)
(* record of the destination), sent no remote call and written nothing.    *)
C8_NoVolumeServiceIsInvalid ==
    \A c \in Callers :
        (Loaded(c) /\ WorkloadRunning(c) /\ Len(Workload(c).volumes) >= 1
                   /\ ~SomeVolumeServiceUp) =>
            \/ pc[c] = "src_check"
            \/ /\ RaisedKind(c, "Invalid")
               /\ phases[c] = <<"load", "src">>
               /\ reads[c] = <<ReadInstance(c), ReadVolumeServices>>
               /\ rpcs[c] = <<>>
               /\ NoMutation(c)

\* Rejected with a volume service registered, but down.
C8_Witness ==
    \E c \in Callers :
        /\ RaisedKind(c, "Invalid")
        /\ WorkloadRunning(c)
        /\ Len(Workload(c).volumes) >= 1
        /\ VolumeRecords # {}
        /\ ~SomeVolumeServiceUp

(* C9: for a running workload with attached volumes, the volume part of    *)
(* the source check passes (the check goes on to the source host's         *)
(* record) whenever some volume service is up, whatever the number and     *)
(* the order of the registered volume services.                            *)
C9_AnyVolumeServiceUpPasses ==
    \A c \in Callers :
        (Loaded(c) /\ WorkloadRunning(c) /\ Len(Workload(c).volumes) >= 1
                   /\ SomeVolumeServiceUp /\ Ran(c, "src")) =>
            InSeq(ReadCompute(Workload(c).host), reads[c])

(* C10 as stated: when the workload's current host has no compute service  *)
(* record, or has one that is not up, a call that has run the source check *)
(* has ended in it with Invalid, with no remote call and no write.         *)
C10_SourceHostAbsentOrDownIsInvalid ==
    \A c \in Callers :
        (Loaded(c) /\ Ran(c, "src")
            /\ (HostAbsent(Workload(c).host) \/ HostDown(Workload(c).host))) =>
            /\ RaisedKind(c, "Invalid")
            /\ Last(phases[c]) = "src"
            /\ rpcs[c] = <<>>
            /\ NoMutation(c)

(* C10 amended: when the workload's current host has no compute service    *)
(* record, or has one that is not up, a call that has run the source check *)
(* has ended in it with no remote call and no write: with Invalid when the *)
(* record is there and not up, and when it is absent with NotFound if the  *)
(* check got as far as fetching the record (Invalid if an earlier part of  *)
(* the source check failed).                                               *)
C10_SourceHostDownIsInvalidAbsentIsNotFound ==
    \A c \in Callers :
        (Loaded(c) /\ Ran(c, "src")
            /\ (HostAbsent(Workload(c).host) \/ HostDown(Workload(c).host))) =>
            /\ Raised(c)
            /\ Last(phases[c]) = "src"
            /\ rpcs[c] = <<>>
            /\ NoMutation(c)
            /\ HostDown(Workload(c).host) => result[c].value = "Invalid"
            /\ HostAbsent(Workload(c).host) =>
                  result[c].value =
                     IF InSeq(ReadCompute(Workload(c).host), reads[c])
                     THEN "NotFound" ELSE "Invalid"

\* A running workload whose current host has no compute service record.
C10_Witness ==
    \E c \in Callers :
        /\ RaisedKind(c, "NotFound")
        /\ Last(phases[c]) = "src"
        /\ WorkloadRunning(c)
        /\ HostAbsent(Workload(c).host)

----------------------------------------------------------------------------
(* C11 as stated: when the destination has no compute service record, or   *)
(* has one that is not up, a call that has run the destination check has   *)
(* ended in it with Invalid, before the capacity read, with no remote call *)
(* and no write.                                                           *)
C11_DestAbsentOrDownIsInvalid ==
    \A c \in Callers :
        ("src" \in passed[c] /\ Ran(c, "dest")
            /\ (HostAbsent(args[c].dest) \/ HostDown(args[c].dest))) =>
            /\ RaisedKind(c, "Invalid")
            /\ Last(phases[c]) = "dest"
            /\ Count(reads[c], ReadCompute(args[c].dest)) = 1
            /\ rpcs[c] = <<>>
            /\ NoMutation(c)

(* C11 amended: when the destination has no compute service record, or has *)
(* one that is not up, a call that has run the destination check has ended *)
(* in it right after fetching the destination's record (the capacity read  *)
(* is not made), with no remote call and no write: with Invalid when the   *)
(* record is there and not up, with NotFound when it is absent.            *)
C11_DestDownIsInvalidAbsentIsNotFound ==
    \A c \in Callers :
        ("src" \in passed[c] /\ Ran(c, "dest")
            /\ (HostAbsent(args[c].dest) \/ HostDown(args[c].dest))) =>
            /\ Raised(c)
            /\ Last(phases[c]) = "dest"
            /\ Last(reads[c]) = ReadCompute(args[c].dest)
            /\ Count(reads[c], ReadCompute(args[c].dest)) = 1
            /\ rpcs[c] = <<>>
            /\ NoMutation(c)
            /\ HostDown(args[c].dest) => result[c].value = "Invalid"
            /\ HostAbsent(args[c].dest) => result[c].value = "NotFound"

\* The source check passed and the destination's record is there, not up.
C11_Witness ==
    \E c \in Callers :
        /\ RaisedKind(c, "Invalid")
        /\ "src" \in passed[c]
        /\ Last(phases[c]) = "dest"
        /\ HostDown(args[c].dest)

----------------------------------------------------------------------------
(* Vocabulary of the compatibility claims.                                 *)

\* The hypervisor attributes in the compute record of a host that has one.
Hypervisor(host) ==
    LET k == CHOOSE k \in ComputeRecords(host) : TRUE
    IN  services[k].compute_service[1]

\* Both storage probes of the call were answered, and the comparison of the
\* hypervisors that follows them has been made.
CompatRan(c) ==
    /\ Len(replies[c]) >= 2
    /\ replies[c][2] = "ok"
    /\ pc[c] # "compat_check"

\* The call has sent the method to some host.
Sent(c, method) == \E k \in 1 .. Len(rpcs[c]) : rpcs[c][k].method = method

\* The launch host and the destination of the call both have a record.
BothRecorded(c) ==
    /\ Loaded(c)
    /\ ~HostAbsent(Workload(c).launched_on)
    /\ ~HostAbsent(args[c].dest)

(* C12: when the launch host's record and the destination's differ in      *)
(* hypervisor_type, a call never returns, never sends compare_cpu and      *)
(* leaves the workload and its volumes as they were; once it has compared  *)
(* the hypervisors it has ended in the common check with Invalid.          *)
C12_TypeMismatchIsInvalid ==
    \A c \in Callers :
        (BothRecorded(c)
            /\ Hypervisor(Workload(c).launched_on).hypervisor_type
                  # Hypervisor(args[c].dest).hypervisor_type) =>
            /\ ~Returned(c)
            /\ ~Sent(c, "compare_cpu")
            /\ NoMutation(c)
            /\ CompatRan(c) =>
                  RaisedKind(c, "Invalid") /\ Last(phases[c]) = "common"

\* The types differ, the versions would have passed, and the call got as
\* far as comparing them.
C12_Witness ==
    \E c \in Callers :
        /\ BothRecorded(c)
        /\ CompatRan(c)
        /\ RaisedKind(c, "Invalid")
        /\ Hypervisor(Workload(c).launched_on).hypervisor_type
              # Hypervisor(args[c].dest).hypervisor_type
        /\ Hypervisor(Workload(c).launched_on).hypervisor_version
              <= Hypervisor(args[c].dest).hypervisor_version

(* C13: when the launch host's record and the destination's have the same  *)
(* hypervisor_type, a call that has compared the hypervisors has ended     *)
(* with Invalid, compare_cpu unsent and nothing written, if the launch     *)
(* host's hypervisor_version is greater than the destination's, and has    *)
(* gone on to the compare_cpu probe if it is equal or smaller.             *)
C13_VersionCheckIsLessOrEqual ==
    \A c \in Callers :
        (BothRecorded(c) /\ CompatRan(c)
            /\ Hypervisor(Workload(c).launched_on).hypervisor_type
                  = Hypervisor(args[c].dest).hypervisor_type) =>
            IF Hypervisor(Workload(c).launched_on).hypervisor_version
                  > Hypervisor(args[c].dest).hypervisor_version
            THEN /\ RaisedKind(c, "Invalid")
                 /\ Last(phases[c]) = "common"
                 /\ ~Sent(c, "compare_cpu")
                 /\ NoMutation(c)
            ELSE pc[c] = "compare_cpu" \/ Sent(c, "compare_cpu")

\* Same type, launch host newer than the destination: Invalid.
C13_Witness ==
    \E c \in Callers :
        /\ BothRecorded(c)
        /\ CompatRan(c)
        /\ Hypervisor(Workload(c).launched_on).hypervisor_type
              = Hypervisor(args[c].dest).hypervisor_type
        /\ Hypervisor(Workload(c).launched_on).hypervisor_version
              > Hypervisor(args[c].dest).hypervisor_version
        /\ RaisedKind(c, "Invalid")

(* C14: for a workload whose current host is not its launch host, a call   *)
(* that has compared the hypervisors has the outcome that the launch       *)
(* host's record gives against the destination's (Invalid on a different   *)
(* type or a greater version, the compare_cpu probe otherwise), whatever   *)
(* the current host's record says, and every compare_cpu it sends carries  *)
(* the cpu_info of the launch host's record.                               *)
C14_CompatUsesLaunchHost ==
    \A c \in Callers :
        (BothRecorded(c) /\ CompatRan(c)
            /\ Workload(c).host # Workload(c).launched_on) =>
            LET o == Hypervisor(Workload(c).launched_on)
                d == Hypervisor(args[c].dest)
            IN  /\ IF \/ o.hypervisor_type # d.hypervisor_type
                      \/ o.hypervisor_version > d.hypervisor_version
                   THEN RaisedKind(c, "Invalid") /\ ~Sent(c, "compare_cpu")
                   ELSE pc[c] = "compare_cpu" \/ Sent(c, "compare_cpu")
                /\ \A k \in 1 .. Len(rpcs[c]) :
                      rpcs[c][k].method = "compare_cpu" =>
                          rpcs[c][k].args = <<o.cpu_info>>

\* The current host's hypervisor type differs from the destination's, the
\* launch host's does not, and compare_cpu went out with the launch host's
\* cpu_info.
C14_Witness ==
    \E c \in Callers :
        /\ BothRecorded(c)
        /\ CompatRan(c)
        /\ Workload(c).host # Workload(c).launched_on
        /\ ~HostAbsent(Workload(c).host)
        /\ Hypervisor(Workload(c).host).hypervisor_type
              # Hypervisor(args[c].dest).hypervisor_type
        /\ Hypervisor(Workload(c).host).cpu_info
              # Hypervisor(Workload(c).launched_on).cpu_info
        /\ Sent(c, "compare_cpu")
        /\ Last(rpcs[c]).args
              = <<Hypervisor(Workload(c).launched_on).cpu_info>>

(* C15: when the workload's launch host has no compute service record, a   *)
(* call never returns, never sends compare_cpu and writes nothing; once    *)
(* it has looked the record up in the common check it has ended there with *)
(* Invalid, the lookup being its last read.                                *)
C15_LaunchHostVanishedIsInvalid ==
    \A c \in Callers :
        (Loaded(c) /\ HostAbsent(Workload(c).launched_on)) =>
            /\ ~Returned(c)
            /\ ~Sent(c, "compare_cpu")
            /\ NoMutation(c)
            /\ CompatRan(c) =>
                  /\ RaisedKind(c, "Invalid")
                  /\ Last(phases[c]) = "common"
                  /\ Last(reads[c]) = ReadCompute(Workload(c).launched_on)

\* Source, destination and storage checks passed; the launch host has no
\* record.
C15_Witness ==
    \E c \in Callers :
        /\ Loaded(c)
        /\ HostAbsent(Workload(c).launched_on)
        /\ CompatRan(c)
        /\ RaisedKind(c, "Invalid")
        /\ Last(reads[c]) = ReadCompute(Workload(c).launched_on)

----------------------------------------------------------------------------
(* C16 as stated: when the destination's mktmpfile call fails with a       *)
(* remote error, the call ends with that remote error (no other kind),     *)
(* confirm_tmpfile is not sent and nothing is written.                     *)
C16_MkTmpFileFailureIsRemoteError ==
    \A c \in Callers :
        (Done(c) /\ Len(replies[c]) >= 1 /\ replies[c][1] = "RemoteError") =>
            /\ RaisedKind(c, "RemoteError")
            /\ ~Sent(c, "confirm_tmpfile")
            /\ NoMutation(c)

(* C17 as stated: when mktmpfile has answered with a path and the source's *)
(* confirm_tmpfile reports NotFound the call ends with Invalid, and when   *)
(* confirm_tmpfile fails with a remote error it ends with that remote      *)
(* error: two different kinds.                                             *)
C17_UnconfirmedFileIsInvalid ==
    \A c \in Callers :
        (Done(c) /\ Len(replies[c]) = 2 /\ replies[c][1] \in Paths) =>
            /\ replies[c][2] = "NotFound" => RaisedKind(c, "Invalid")
            /\ replies[c][2] = "RemoteError" => RaisedKind(c, "RemoteError")

----------------------------------------------------------------------------
(* C18: a call sends each of mktmpfile, confirm_tmpfile and compare_cpu at *)
(* most once, and when compare_cpu fails with a remote error the call has  *)
(* ended with that remote error, in the common check, nothing written.     *)
C18_RemoteErrorsNotRetried ==
    \A c \in Callers :
        /\ \A method \in {"mktmpfile", "confirm_tmpfile", "compare_cpu"} :
              Cardinality({k \in 1 .. Len(rpcs[c]) :
                              rpcs[c][k].method = method}) <= 1
        /\ Len(rpcs[c]) = Len(replies[c])
        /\ (Len(replies[c]) = 3 /\ replies[c][3] = "RemoteError") =>
              /\ rpcs[c][3].method = "compare_cpu"
              /\ RaisedKind(c, "RemoteError")
              /\ Last(phases[c]) = "common"
              /\ NoMutation(c)

\* compare_cpu was sent once, failed with a remote error, and the call
\* ended with it.
C18_Witness ==
    \E c \in Callers :
        /\ Len(replies[c]) = 3
        /\ replies[c][3] = "RemoteError"
        /\ Count([k \in 1 .. Len(rpcs[c]) |-> rpcs[c][k].method],
                 "compare_cpu") = 1
        /\ RaisedKind(c, "RemoteError")

(* C19 as stated: a call that fails in the load or in a check fails with   *)
(* NotFound, Invalid, the capacity error (NotEmpty) or the remote error,   *)
(* and a call goes past a step only if the step raised nothing (it has     *)
(* sent a later message only after an answer that was not an error).       *)
C19_OnlyTaxonomyKinds ==
    \A c \in Callers :
        /\ (Raised(c) /\ ~Ran(c, "transition")) =>
              result[c].value \in {"NotFound", "Invalid", "NotEmpty", "RemoteError"}
        /\ \A k \in 1 .. Len(replies[c]) :
              replies[c][k] \in {"RemoteError", "NotFound"} =>
                  Raised(c) /\ k = Len(replies[c]) /\ writes[c] = <<>>

----------------------------------------------------------------------------
(* C20: a call for an instance_id that has no record has, once it has run  *)
(* the load, ended with NotFound: the load is its only phase and the       *)
(* lookup of the instance its only read, it has read no service, sent no   *)
(* message and written nothing.                                            *)
C20_MissingInstanceIsNotFound ==
    \A c \in Callers :
        (Started(c) /\ args[c].instance_id \notin DOMAIN instances) =>
            \/ pc[c] = "load" /\ reads[c] = <<>> /\ phases[c] = <<>>
            \/ /\ RaisedKind(c, "NotFound")
               /\ phases[c] = <<"load">>
               /\ passed[c] = {}
               /\ reads[c] = <<ReadInstance(c)>>
               /\ rpcs[c] = <<>>
               /\ NoMutation(c)

\* A call for an unknown instance_id has ended with NotFound.
C20_Witness ==
    \E c \in Callers :
        /\ args[c].instance_id \notin DOMAIN instances
        /\ RaisedKind(c, "NotFound")
        /\ reads[c] = <<ReadInstance(c)>>

----------------------------------------------------------------------------
(* Vocabulary of the liveness claims.                                      *)

\* The last call of one of the three operations was a call of op.
Probed(op) == probe.op = op

\* The heartbeat of a record: updated_at when set, created_at otherwise.
Heartbeat(service) ==
    IF service.updated_at # <<>> THEN service.updated_at[1]
    ELSE service.created_at

\* The age of the probed record's heartbeat when service_is_up was called.
ProbedAge == probe.at - Heartbeat(probe.service)

(* C21: whatever the threshold (FLAGS.service_down_time) and the age of    *)
(* the heartbeat, service_is_up answers true when the age is smaller than  *)
(* the threshold and false when it is equal or greater.                    *)
C21_UpIffAgeBelowThreshold ==
    Probed("service_is_up") =>
        /\ ProbedAge < FLAGS.service_down_time => probe.value = TRUE
        /\ ProbedAge = FLAGS.service_down_time => probe.value = FALSE
        /\ ProbedAge > FLAGS.service_down_time => probe.value = FALSE

\* The boundary: a heartbeat exactly service_down_time old is down.
C21_Witness ==
    /\ Probed("service_is_up")
    /\ ProbedAge = FLAGS.service_down_time
    /\ probe.value = FALSE

(* C22: when updated_at is set, service_is_up answers what the age of      *)
(* updated_at gives and would answer the same whatever created_at were;    *)
(* when updated_at is not set it answers what the age of created_at gives. *)
C22_UpdatedAtTakesPrecedence ==
    (Probed("service_is_up") /\ probe.at = now) =>
        IF probe.service.updated_at # <<>>
        THEN /\ probe.value
                  = (probe.at - probe.service.updated_at[1]
                        < FLAGS.service_down_time)
             /\ \A t \in Stamps :
                   service_is_up([probe.service EXCEPT !.created_at = t])
                      = probe.value
        ELSE probe.value
                = (probe.at - probe.service.created_at < FLAGS.service_down_time)

\* updated_at is set, and created_at alone would have given the other
\* answer.
C22_Witness ==
    /\ Probed("service_is_up")
    /\ probe.at = now
    /\ probe.service.updated_at # <<>>
    /\ probe.value
          # (probe.at - probe.service.created_at < FLAGS.service_down_time)

\* The later of the two timestamps of a record that has both.
LatestStamp(service) ==
    IF service.updated_at[1] > service.created_at
    THEN service.updated_at[1] ELSE service.created_at

(* C23 as stated: for a record with both timestamps, service_is_up answers *)
(* whether the age of the later of the two is below the threshold, also    *)
(* when updated_at is earlier than created_at.                             *)
C23_UpIffLatestStampRecent ==
    (Probed("service_is_up") /\ probe.service.updated_at # <<>>) =>
        probe.value
           = (probe.at - LatestStamp(probe.service) < FLAGS.service_down_time)

(* C23 amended: for a record with both timestamps, service_is_up answers   *)
(* whether the age of updated_at is below the threshold: that is the age   *)
(* of the later of the two when updated_at is not earlier than created_at, *)
(* and when it is earlier the answer still follows updated_at.             *)
C23_UpIffUpdatedAtRecent ==
    (Probed("service_is_up") /\ probe.service.updated_at # <<>>) =>
        /\ probe.service.updated_at[1] >= probe.service.created_at =>
              probe.value
                 = (probe.at - LatestStamp(probe.service)
                       < FLAGS.service_down_time)
        /\ probe.service.updated_at[1] < probe.service.created_at =>
              probe.value
                 = (probe.at - probe.service.updated_at[1]
                       < FLAGS.service_down_time)

\* updated_at is earlier than created_at and too old, created_at is recent:
\* the service is down.
C23_Witness ==
    /\ Probed("service_is_up")
    /\ probe.service.updated_at # <<>>
    /\ probe.service.updated_at[1] < probe.service.created_at
    /\ probe.at - probe.service.created_at < FLAGS.service_down_time
    /\ probe.value = FALSE

\* The services of the topic hosts_up was asked about whose heartbeat was
\* younger than the threshold when it was asked.
ProbedUp ==
    {k \in 1 .. Len(services) :
        /\ services[k].topic = probe.topic
        /\ probe.at - Heartbeat(services[k]) < FLAGS.service_down_time}

(* C24: hosts_up(topic) returns the hosts of the services of that topic    *)
(* that are up, one entry for each of them and nothing else: no host of a  *)
(* down service, no host of a service of another topic.                    *)
C24_HostsUpAreTheLiveHostsOfTheTopic ==
    Probed("hosts_up") =>
        /\ {probe.value[j] : j \in 1 .. Len(probe.value)}
              = {services[k].host : k \in ProbedUp}
        /\ Len(probe.value) = Cardinality(ProbedUp)

\* Two services of the topic, one of them down: hosts_up returns the host
\* of the other.
C24_Witness ==
    /\ Probed("hosts_up")
    /\ Len(services) = 2
    /\ services[1].topic = probe.topic
    /\ services[2].topic = probe.topic
    /\ Len(probe.value) = 1
    /\ probe.value[1] = services[2].host

----------------------------------------------------------------------------
(* C25: a call of the base schedule, whatever the topic, has raised        *)
(* NotImplementedError; it returned nothing, read nothing, sent no message *)
(* and wrote nothing.                                                      *)
C25_ScheduleIsNotImplemented ==
    Probed("schedule") =>
        /\ probe.value = "NotImplementedError"
        /\ \A c \in Callers :
              reads[c] = <<>> /\ rpcs[c] = <<>> /\ writes[c] = <<>>
        /\ \A id \in InstanceIds : instances[id].state = RUNNING
        /\ \A v \in DOMAIN volumes : volumes[v] # migrating_status

\* schedule was called for the volume topic, after hosts_up had found a
\* live host for it.
C25_Witness ==
    /\ Probed("schedule")
    /\ probe.topic = "volume"
    /\ probe.value = "NotImplementedError"
    /\ hosts_up("volume") # <<>>

----------------------------------------------------------------------------
(* C26 as stated: two calls for the same workload never both pass the      *)
(* source check, both issue the transition writes and both return.         *)
C26_SameWorkloadCallsAreSerialized ==
    \A c \in Callers, d \in Callers :
        (c # d /\ Started(c) /\ Started(d)
            /\ args[c].instance_id = args[d].instance_id) =>
            ~ /\ "src" \in passed[c] /\ "src" \in passed[d]
              /\ writes[c] # <<>> /\ writes[d] # <<>>
              /\ Returned(c) /\ Returned(d)

----------------------------------------------------------------------------
(* Vocabulary of the non-interference claim.                               *)

\* What the call raises in its load and checks when it runs alone on the
\* repository as it was when the call began, given the answers its remote
\* calls got ("none" when it raises nothing).
AloneRaises(c) ==
    IF args[c].instance_id \notin DOMAIN pre[c].instances THEN "NotFound"
    ELSE IF live_migration_src_check(Workload(c)).exc # "none"
    THEN live_migration_src_check(Workload(c)).exc
    ELSE IF live_migration_dest_check(Workload(c), args[c].dest).exc # "none"
    THEN live_migration_dest_check(Workload(c), args[c].dest).exc
    ELSE IF replies[c][1] \notin Paths THEN mktmpfile_except(replies[c][1])
    ELSE IF replies[c][2] # "ok" THEN confirm_tmpfile_except(replies[c][2])
    ELSE IF live_migration_compat_check(Workload(c), args[c].dest).exc # "none"
    THEN live_migration_compat_check(Workload(c), args[c].dest).exc
    ELSE IF replies[c][3] # "ok" THEN compare_cpu_except(replies[c][3])
    ELSE "none"

\* The writes of a call that runs alone and gets through the transition.
AloneWrites(c) ==
    <<Write("instance_set_state", args[c].instance_id, migrating_state)>>
    \o [k \in 1 .. Len(Workload(c).volumes) |->
          Write("volume_update", Workload(c).volumes[k], <<migrating_status>>)]

\* The two callers have called for different workloads.
DifferentWorkloads ==
    /\ Started("c1") /\ Started("c2")
    /\ args["c1"].instance_id # args["c2"].instance_id

(* C27: when the two callers call for different workloads, in every        *)
(* interleaving a call that has ended has the result it has when run       *)
(* alone (the same error from the same check, or the workload's host       *)
(* returned; a failed write apart), the writes it issued are the first of  *)
(* the writes it issues alone, all on its own workload and that workload's *)
(* volumes, and the other caller's workload is as that caller left it.     *)
C27_DifferentWorkloadsDoNotInterfere ==
    DifferentWorkloads =>
        \A c \in Callers :
            /\ Done(c) =>
                  IF AloneRaises(c) # "none"
                  THEN RaisedKind(c, AloneRaises(c)) /\ writes[c] = <<>>
                  ELSE /\ IsPrefix(writes[c], AloneWrites(c))
                       /\ \/ /\ result[c] = [kind |-> "returned",
                                              value |-> Workload(c).host]
                             /\ writes[c] = AloneWrites(c)
                          \/ RaisedKind(c, "DBError")
            /\ \A k \in 1 .. Len(writes[c]) :
                  \/ /\ writes[c][k].op = "instance_set_state"
                     /\ writes[c][k].id = args[c].instance_id
                  \/ /\ writes[c][k].op = "volume_update"
                     /\ InSeq(writes[c][k].id, Workload(c).volumes)
            /\ (writes[c] = <<>> /\ Loaded(c)) =>
                  instances[args[c].instance_id] = Workload(c)

\* Both calls, for different workloads, ran interleaved and returned.
C27_Witness ==
    /\ DifferentWorkloads
    /\ Returned("c1") /\ Returned("c2")
    /\ writes["c1"] # <<>> /\ writes["c2"] # <<>>
    /\ pre["c1"].instances = pre["c2"].instances

----------------------------------------------------------------------------
(* C28 as stated: every call that has begun eventually ends, with a result *)
(* or an error, also when the agent it calls never answers.                *)
C28_EveryCallEnds ==
    \A c \in Callers : (pc[c] = "load") ~> Done(c)

----------------------------------------------------------------------------
(* C29: when a volume_update fails after instance_set_state was stored,    *)
(* the call has ended with the write's error and the workload is left      *)
(* PAUSED/'migrating'; the volumes updated before the failure are          *)
(* 'migrating', the one that failed and those after it have the status     *)
(* they had, and the writes issued are instance_set_state and one          *)
(* volume_update for each volume up to the failed one, nothing else.       *)
C29_NoRollbackOnVolumeFailure ==
    \A c \in Callers :
        (Raised(c) /\ Len(writes[c]) >= 2) =>
            LET failed == Len(writes[c]) - 1
                vols == Workload(c).volumes
            IN  /\ RaisedKind(c, "DBError")
                /\ Last(phases[c]) = "transition"
                /\ instances[args[c].instance_id].state = PAUSED
                /\ instances[args[c].instance_id].state_description = "migrating"
                /\ failed <= Len(vols)
                /\ \A j \in 1 .. failed - 1 : volumes[vols[j]] = "migrating"
                /\ \A j \in failed .. Len(vols) :
                      volumes[vols[j]] = pre[c].volumes[vols[j]]
                /\ writes[c][1].op = "instance_set_state"
                /\ \A j \in 1 .. failed :
                      /\ writes[c][j + 1].op = "volume_update"
                      /\ writes[c][j + 1].id = vols[j]
                      /\ writes[c][j + 1].values = <<"migrating">>

\* The update of the second volume failed: the workload is PAUSED, the first
\* volume 'migrating', the second as it was.
C29_Witness ==
    \E c \in Callers :
        /\ RaisedKind(c, "DBError")
        /\ Len(writes[c]) = 3
        /\ instances[args[c].instance_id].state = PAUSED
        /\ volumes[Workload(c).volumes[1]] = "migrating"
        /\ volumes[Workload(c).volumes[2]] = "in-use"

----------------------------------------------------------------------------
(* C30: no step of a call of schedule_live_migration, in a call that       *)
(* returns or in one that fails, changes a Service record: the services    *)
(* table (hosts, topics, timestamps, memory and hypervisor attributes) is  *)
(* after every step what it was before it.                                 *)
C30_ServicesNeverModified == [][services' = services]_vars

\* A call has gone through all checks and writes and returned, and the
\* destination's record still has the memory the capacity check found.
C30_Witness ==
    \E c \in Callers :
        /\ Returned(c)
        /\ writes[c] # <<>>
        /\ ~HostAbsent(args[c].dest)
        /\ HostAvailable(args[c].dest) > Workload(c).memory_mb

----------------------------------------------------------------------------
(* C31: a call that has returned has sent exactly three messages, in this  *)
(* order: mktmpfile to the compute queue of the destination,               *)
(* confirm_tmpfile to the compute queue of the workload's current host     *)
(* with the path mktmpfile returned, compare_cpu to the compute queue of   *)
(* the destination with the cpu_info of the launch host's record; and no   *)
(* call, returning or not, has sent confirm_tmpfile other than as its      *)
(* second message, after mktmpfile answered with a path.                   *)
C31_ThreeRemoteCallsInOrder ==
    \A c \in Callers :
        /\ Returned(c) =>
              /\ Len(rpcs[c]) = 3
              /\ rpcs[c][1] = [queue |-> <<"compute", args[c].dest>>,
                               method |-> "mktmpfile", args |-> <<>>]
              /\ rpcs[c][2] = [queue |-> <<"compute", Workload(c).host>>,
                               method |-> "confirm_tmpfile",
                               args |-> <<replies[c][1]>>]
              /\ rpcs[c][3] = [queue |-> <<"compute", args[c].dest>>,
                               method |-> "compare_cpu",
                               args |-> <<Hypervisor(Workload(c).launched_on).cpu_info>>]
              /\ replies[c][1] \in Paths
        /\ \A k \in 1 .. Len(rpcs[c]) :
              rpcs[c][k].method = "confirm_tmpfile" =>
                  /\ k = 2
                  /\ rpcs[c][1].method = "mktmpfile"
                  /\ replies[c][1] \in Paths
                  /\ rpcs[c][k].args = <<replies[c][1]>>

\* A returned call whose launch host is not its current host, and whose
\* mktmpfile answered with the second path.
C31_Witness ==
    \E c \in Callers :
        /\ Returned(c)
        /\ Len(rpcs[c]) = 3
        /\ Workload(c).host # Workload(c).launched_on
        /\ rpcs[c][2].args = <<"/tmp/p2">>
        /\ rpcs[c][2].queue # rpcs[c][1].queue

----------------------------------------------------------------------------
(* C32: in every state, also in the middle of a call and after a call that *)
(* a failing write cut short, every volume with status 'migrating' is      *)
(* attached to a workload that is PAUSED/'migrating', and a call that has  *)
(* issued a volume_update issued instance_set_state before it, as its      *)
(* first write, and that write was stored.                                 *)
C32_VolumeMigratingImpliesWorkloadPaused ==
    /\ \A v \in DOMAIN volumes :
          volumes[v] = "migrating" =>
              \E id \in DOMAIN instances :
                  /\ InSeq(v, instances[id].volumes)
                  /\ instances[id].state = PAUSED
                  /\ instances[id].state_description = "migrating"
    /\ \A c \in Callers :
          \A k \in 1 .. Len(writes[c]) :
              writes[c][k].op = "volume_update" =>
                  /\ k > 1
                  /\ writes[c][1].op = "instance_set_state"
                  /\ writes[c][1].id = args[c].instance_id
                  /\ instances[args[c].instance_id].state = PAUSED

\* In the middle of the loop over the volumes: the first volume is
\* 'migrating', the second not yet, the workload already PAUSED.
C32_Witness ==
    \E c \in Callers :
        /\ pc[c] = "volume_update"
        /\ Len(instance_ref[c].volumes) = 2
        /\ volumes[instance_ref[c].volumes[1]] = "migrating"
        /\ volumes[instance_ref[c].volumes[2]] # "migrating"
        /\ instances[args[c].instance_id].state = PAUSED

----------------------------------------------------------------------------
(* C33: a call for a running workload with no volume never reads the       *)
(* 'volume' services, and what its source check does is settled by the     *)
(* compute record of the workload's host alone, whether no volume service  *)
(* is registered, all are down or some are up: it passes when the record   *)
(* is there and up, raises Invalid when it is down, NotFound when absent.  *)
C33_NoVolumesNoVolumeServiceCheck ==
    \A c \in Callers :
        (Loaded(c) /\ WorkloadRunning(c) /\ Workload(c).volumes = <<>>) =>
            /\ ~InSeq(ReadVolumeServices, reads[c])
            /\ Ran(c, "src") =>
                  IF HostAbsent(Workload(c).host)
                  THEN RaisedKind(c, "NotFound") /\ Last(phases[c]) = "src"
                  ELSE IF HostDown(Workload(c).host)
                  THEN RaisedKind(c, "Invalid") /\ Last(phases[c]) = "src"
                  ELSE "src" \in passed[c]

\* A running workload with no volume was migrated while no volume service
\* was up.
C33_Witness ==
    \E c \in Callers :
        /\ Loaded(c)
        /\ Workload(c).volumes = <<>>
        /\ ~SomeVolumeServiceUp
        /\ Returned(c)

----------------------------------------------------------------------------
(* C34: a call that has not passed the destination check has sent no       *)
(* message and received no answer; in particular one that has failed in    *)
(* the source check or in the destination check, for whatever reason, has  *)
(* issued no remote call.                                                  *)
C34_NoRemoteCallBeforeCommonCheck ==
    \A c \in Callers :
        /\ (Started(c) /\ "dest" \notin passed[c]) =>
              rpcs[c] = <<>> /\ replies[c] = <<>>
        /\ (Raised(c) /\ phases[c] # <<>>
                /\ Last(phases[c]) \in {"src", "dest"}) =>
              /\ rpcs[c] = <<>>
              /\ result[c].value \in {"Invalid", "NotFound", "NotEmpty"}

\* The last of the checks before the common check has failed: the
\* destination has too little memory, and nothing was sent.
C34_Witness ==
    \E c \in Callers :
        /\ RaisedKind(c, "NotEmpty")
        /\ Last(phases[c]) = "dest"
        /\ "src" \in passed[c]
        /\ rpcs[c] = <<>>

----------------------------------------------------------------------------
\* The workload is in the state the transition leaves it in.
Migrating(i) == i.state = PAUSED /\ i.state_description = "migrating"

(* C35: a call that finds its workload PAUSED/'migrating' (as an earlier   *)
(* call left it), whatever its destination, ends in the source check with  *)
(* Invalid, having read the instance only, sent nothing and written        *)
(* nothing; and no step ever changes a workload that is PAUSED/'migrating',*)
(* so a workload is put in that state at most once.                        *)
C35_MigratingWorkloadIsNotMigratedAgain ==
    /\ [](\A c \in Callers :
            (Loaded(c) /\ Migrating(Workload(c)) /\ Ran(c, "src")) =>
                /\ RaisedKind(c, "Invalid")
                /\ phases[c] = <<"load", "src">>
                /\ reads[c] = <<ReadInstance(c)>>
                /\ rpcs[c] = <<>>
                /\ NoMutation(c))
    /\ [][\A id \in DOMAIN instances :
             Migrating(instances[id]) => instances'[id] = instances[id]]_vars

\* A later call for a workload that an earlier call migrated with both its
\* volumes, to the host the workload is on, has failed with Invalid.
C35_Witness ==
    \E c \in Callers :
        /\ Loaded(c)
        /\ Migrating(Workload(c))
        /\ Len(Workload(c).volumes) = 2
        /\ \A k \in 1 .. 2 :
              pre[c].volumes[Workload(c).volumes[k]] = "migrating"
        /\ args[c].dest = Workload(c).host
        /\ RaisedKind(c, "Invalid")
        /\ NoMutation(c)

----------------------------------------------------------------------------
(* C36: whatever a call has done so far, and however it ended, every       *)
(* instance other than the one it was called for is as it was when the     *)
(* call began, the instance it was called for differs at most in state and *)
(* state_description, every volume not attached to that instance (in the   *)
(* record the call loaded) has the status it had, and every write the call *)
(* issued is on that instance or on one of its volumes.                    *)
C36_WritesOnlyOwnWorkloadAndVolumes ==
    \A c \in Callers :
        Started(c) =>
            /\ \A id \in DOMAIN instances :
                  IF id = args[c].instance_id
                  THEN instances[id] =
                          [pre[c].instances[id] EXCEPT
                              !.state = instances[id].state,
                              !.state_description = instances[id].state_description]
                  ELSE instances[id] = pre[c].instances[id]
            /\ \A v \in DOMAIN volumes :
                  (~Loaded(c) \/ ~InSeq(v, instance_ref[c].volumes)) =>
                      volumes[v] = pre[c].volumes[v]
            /\ Loaded(c) => instance_ref[c] = Workload(c)
            /\ \A k \in 1 .. Len(writes[c]) :
                  \/ /\ writes[c][k].op = "instance_set_state"
                     /\ writes[c][k].id = args[c].instance_id
                  \/ /\ writes[c][k].op = "volume_update"
                     /\ InSeq(writes[c][k].id, instance_ref[c].volumes)

\* A call for i2 has returned: i2 and its volume v3 were written, i1 and
\* its volumes are as they were.
C36_Witness ==
    \E c \in Callers :
        /\ Returned(c)
        /\ args[c].instance_id = "i2"
        /\ Len(writes[c]) = 2
        /\ volumes["v3"] = "migrating"
        /\ instances["i1"] = pre[c].instances["i1"]
        /\ instances["i1"].state = RUNNING
        /\ volumes["v1"] = pre[c].volumes["v1"]

====
